---- MODULE Spec2Model ----
(***************************************************************************)
(* The ST7796 controller model of mipidsi (src/mipidsi/src/models/         *)
(* st7796.rs): the bring-up sequence `init`, the pixel streaming           *)
(* `write_pixels`, the default options and the Builder constructor.        *)
(*                                                                         *)
(* The bus, the reset pin and the delay provider are external: what they   *)
(* are asked to do is recorded, in order, in `trace`.  A bus write or a    *)
(* pin toggle may be rejected at any time.                                 *)
(***************************************************************************)
EXTENDS Integers, Sequences, FiniteSets, TLC

VARIABLES
    phase,      \* "builder": options may still be overridden; "display": built
    options,    \* the ModelOptions of the builder / display handle
    overridden, \* whether an override was applied to the builder
    op,         \* the last call entered: "none", "init" or "write_pixels"
    pc,         \* position in that call; 0 when no call is in progress
    rst,        \* init's rst argument: "Some" or "None"
    madctl,     \* init's local `madctl`: <<>> before line 50, <<value>> after
    colors,     \* write_pixels' argument: the sequence of Rgb565 colors
    consumed,   \* how many elements of `colors` the iterator has yielded
    trace,      \* what that call has done, in order
    result,     \* what that call returned
    returned,   \* the results of the init calls completed so far, in order
    first       \* the first call entered on the handle, and the first bus or
                \* reset-pin action observed since the builder was created

vars == <<phase, options, overridden, op, pc, rst, madctl, colors, consumed,
          trace, result, returned, first>>

(***************************************************************************)
(* Bounds of the model.                                                    *)
(***************************************************************************)
MaxCalls == 2
MaxPixels == 2

(***************************************************************************)
(* ModelOptions.                                                           *)
(***************************************************************************)
Sizes == {<<240, 320>>, <<320, 480>>, <<320, 500>>}

Orientations ==
    { [rotation |-> 0, mirrored |-> FALSE],
      [rotation |-> 90, mirrored |-> FALSE],
      [rotation |-> 180, mirrored |-> TRUE] }

\* ModelOptions::with_sizes: the two sizes, every other field at its default.
with_sizes(display_size, framebuffer_size) ==
    [ display_size |-> display_size,
      framebuffer_size |-> framebuffer_size,
      orientation |-> [rotation |-> 0, mirrored |-> FALSE],
      invert_colors |-> FALSE ]

\* ST7796::default_options
default_options == with_sizes(<<320, 480>>, <<320, 480>>)

\* The sizes the documentation of Builder::st7796 announces.
DocumentedDefaultSize == <<240, 320>>

\* ModelOptions' invariant: the framebuffer covers the display in both axes.
SizesValid(display_size, framebuffer_size) ==
    /\ framebuffer_size[1] >= display_size[1]
    /\ framebuffer_size[2] >= display_size[2]

(***************************************************************************)
(* DCS values computed from the options.                                   *)
(***************************************************************************)
\* SetScrollArea::from(options): the framebuffer/display size delta.
SetScrollArea_from(o) ==
    << o.framebuffer_size[1] - o.display_size[1],
       o.framebuffer_size[2] - o.display_size[2] >>

\* SetAddressMode::from(options): the address-mode byte of the orientation
\* (MY = \h80, MX = \h40, MV = \h20).
SetAddressMode_from(o) ==
    LET rot == o.orientation.rotation
        base == CASE rot = 0 -> 0
                  [] rot = 90 -> \h60
                  [] rot = 180 -> \hC0
                  [] OTHER -> \hA0
        mx == (base \div \h40) % 2
    IN  IF o.orientation.mirrored
        THEN IF mx = 1 THEN base - \h40 ELSE base + \h40
        ELSE base

\* SetInvertMode(options.invert_colors)
SetInvertMode(invert_colors) == IF invert_colors THEN <<1>> ELSE <<0>>

\* type ColorFormat = Rgb565
ColorFormat == "Rgb565"

\* BitsPerPixel::from_rgb_color::<C>()
BitsPerPixel_from_rgb_color(c) ==
    CASE c = "Rgb565" -> 16
      [] c = "Rgb666" -> 18
      [] OTHER -> 24

\* PixelFormat::with_all(bpp): the same depth for both interfaces.
PixelFormat_with_all(bpp) == <<bpp>>

(***************************************************************************)
(* The statements of init.  `try` is the statement's `?`: a failure        *)
(* returns from init at once.                                              *)
(***************************************************************************)
\* A statement: `args` is its payload, or, when `var` names a local
\* variable, the value to assign to it ("let") or nothing (the payload is the
\* variable's value when the statement runs).
Stmt(kind, name, args, var, try) ==
    [kind |-> kind, name |-> name, args |-> args, var |-> var, try |-> try]

\* dcs.write_command(cmd)?
write_command(name, args) == Stmt("command", name, args, "", TRUE)

\* A slip: the result of write_raw is dropped instead of returned with `?`.
write_raw_unchecked(name, args) == Stmt("raw", name, args, "", FALSE)

\* dcs.write_raw(instruction, &[..])?
write_raw(name, args) == Stmt("raw", name, args, "", TRUE)

\* delay.delay_us(us)
delay_us(us) == Stmt("delay", "delay_us", <<us>>, "", FALSE)

\* rst.set_low() / rst.set_high(), mapped to InitError::Pin
set_pin(name) == Stmt("pin", name, <<>>, "", TRUE)

\* let madctl = SetAddressMode::from(options);
let_madctl(value) == Stmt("let", "SetAddressMode", <<value>>, "madctl", FALSE)

\* dcs.write_command(madctl)?: the payload is the local variable.
write_madctl == Stmt("command", "SetAddressMode", <<>>, "madctl", TRUE)

\* The pulse width of the hard reset, in microseconds.
HardResetPulse == 10

\* Model::hard_reset: assert the pin, hold it for the pulse width, deassert.
hard_reset ==
    << set_pin("set_low"), delay_us(HardResetPulse), set_pin("set_high") >>

\* A slip: the soft reset is sent whether or not the pin was toggled.
ResetSteps_both(r) ==
    (IF r = "Some" THEN hard_reset ELSE <<>>)
    \o << write_command("SoftReset", <<>>), delay_us(150000) >>

\* A slip: the result of hard_reset is dropped instead of returned with `?`.
ResetSteps_unchecked(r) ==
    (IF r = "Some"
     THEN [i \in DOMAIN hard_reset |-> [hard_reset[i] EXCEPT !.try = FALSE]]
     ELSE << write_command("SoftReset", <<>>) >>)
    \o << delay_us(150000) >>

\* A slip: a digit is lost, the settle delay is 15 ms.
ResetSteps_short(r) ==
    (IF r = "Some" THEN hard_reset ELSE << write_command("SoftReset", <<>>) >>)
    \o << delay_us(15000) >>

\* lines 36-40: the reset action, then the settle delay
ResetSteps(r) ==
    (IF r = "Some" THEN hard_reset ELSE << write_command("SoftReset", <<>>) >>)
    \o << delay_us(150000) >>

\* A slip: the delay after ExitSleepMode is left out.
SleepExitSteps_nodelay == << write_command("ExitSleepMode", <<>>) >>

\* lines 42-43
SleepExitSteps == << write_command("ExitSleepMode", <<>>), delay_us(10000) >>

\* lines 45-46
ExtensionUnlockSteps ==
    << write_raw("0xF0", <<\hC3>>), write_raw("0xF0", <<\h96>>) >>

\* A slip: the scroll area of the default options, not of the caller's.
ScrollAreaSteps_default(o) ==
    << write_command("SetScrollArea", SetScrollArea_from(default_options)) >>

\* lines 48-49: set hw scroll area based on framebuffer size
ScrollAreaSteps(o) == << write_command("SetScrollArea", SetScrollArea_from(o)) >>

\* lines 50-51
AddressModeSteps(o) == << let_madctl(SetAddressMode_from(o)), write_madctl >>

\* line 53
InvertModeSteps(o) ==
    << write_command("SetInvertMode", SetInvertMode(o.invert_colors)) >>

\* A slip: the delay after SetPixelFormat is left out.
PixelFormatSteps_nodelay ==
    << write_command("SetPixelFormat",
           PixelFormat_with_all(BitsPerPixel_from_rgb_color(ColorFormat))) >>

\* lines 55-57
PixelFormatSteps ==
    << write_command("SetPixelFormat",
           PixelFormat_with_all(BitsPerPixel_from_rgb_color(ColorFormat))),
       delay_us(10000) >>

\* lines 59-80
TuningSteps ==
    << write_raw("0xB4", <<\h01>>),
       write_raw("0xB7", <<\hC6>>),
       write_raw("0xC1", <<\h15>>),
       write_raw("0xC2", <<\hAF>>),
       write_raw("0xC5", <<\h22>>),
       write_raw("0xC6", <<\h00>>),
       write_raw("0xE8", <<\h40, \h8A, \h00, \h00, \h29, \h19, \hA5, \h33>>),
       write_raw("0xE0", <<\hF0, \h04, \h08, \h09, \h08, \h15, \h2F,
                           \h42, \h46, \h28, \h15, \h16, \h29, \h2D>>),
       write_raw("0xE0", <<\hF0, \h04, \h09, \h09, \h08, \h15, \h2E,
                           \h46, \h46, \h28, \h15, \h15, \h29, \h2D>>) >>

\* A slip: the delay after EnterNormalMode is left out.
NormalModeSteps_nodelay == << write_command("EnterNormalMode", <<>>) >>

\* lines 82-83
NormalModeSteps == << write_command("EnterNormalMode", <<>>), delay_us(10000) >>

\* line 84
Reg53Steps == << write_raw("0x53", <<\h24>>) >>

\* A slip: the second key of the lock is left out.
ExtensionLockSteps_single == << write_raw("0xF0", <<\h3C>>) >>

\* lines 85-86
ExtensionLockSteps ==
    << write_raw("0xF0", <<\h3C>>), write_raw("0xF0", <<\h69>>) >>

\* A slip: the final delay is as short as the secondary ones.
DisplayOnSteps_short == << write_command("SetDisplayOn", <<>>), delay_us(10000) >>

\* lines 87-90: DISPON requires some time otherwise we risk SPI data issues
DisplayOnSteps == << write_command("SetDisplayOn", <<>>), delay_us(120000) >>

\* ST7796::init, lines 36-90: the statements before `Ok(madctl)`, in order.
init(o, r) ==
    ResetSteps(r) \o SleepExitSteps \o ExtensionUnlockSteps
    \o ScrollAreaSteps(o) \o AddressModeSteps(o) \o InvertModeSteps(o)
    \o PixelFormatSteps \o TuningSteps \o NormalModeSteps \o Reg53Steps
    \o ExtensionLockSteps \o DisplayOnSteps

(***************************************************************************)
(* write_pixels: the conversion of the colors to the wire format.          *)
(***************************************************************************)
\* The Rgb565 colors offered to write_pixels: red, green and blue channels
\* of 5, 6 and 5 bits.
Colors ==
    { [r |-> 31, g |-> 0, b |-> 0],
      [r |-> 1, g |-> 2, b |-> 3] }

\* The color sequences of at most n elements.
ColorSeqs(n) == UNION { [1..k -> Colors] : k \in 0..n }

\* Rgb565::into_storage: the 16-bit word rrrrrggg gggbbbbb.
into_storage(c) == c.r * 2048 + c.g * 32 + c.b

\* A slip: the little-endian format, low byte first.
U16LE(w) == << w % 256, w \div 256 >>

\* DataFormat::U16BEIter: each word goes out high byte first.
U16BE(w) == << w \div 256, w % 256 >>

\* The bytes of the first n colors of cs, in order.
RECURSIVE U16BEIter(_, _)
U16BEIter(cs, n) ==
    IF n = 0 THEN <<>>
    ELSE U16BEIter(cs, n - 1) \o U16BE(into_storage(cs[n]))

(***************************************************************************)
(* What the collaborators observe, and what a call returns.                *)
(***************************************************************************)
Event(kind, name, args, ok) ==
    [kind |-> kind, name |-> name, args |-> args, ok |-> ok]

Result(status, cause, value) ==
    [status |-> status, cause |-> cause, value |-> value]

NoResult == Result("none", "", <<>>)

\* The error a failed statement of init returns: InitError::Pin for the reset
\* pin, InitError::DisplayError for the bus.
InitError(kind) == Result("InitError", IF kind = "pin" THEN "Pin" ELSE "DisplayError", <<>>)

\* A slip: a fresh default address mode is returned, not the one written.
init_ok_default(m) == Result("Ok", "", <<0>>)

\* line 92: Ok(madctl)
init_ok(m) == Result("Ok", "", m)

(***************************************************************************)
(* The builder.                                                            *)
(***************************************************************************)
\* Builder::st7796(di): Self::with_model(di, ST7796), which starts from the
\* model's default options.
st7796 == default_options

\* A slip: the constructor already sends a soft reset over the bus.
Init_resets ==
    /\ phase = "builder"
    /\ options = st7796
    /\ overridden = FALSE
    /\ op = "none"
    /\ pc = 0
    /\ rst = "None"
    /\ madctl = <<>>
    /\ colors = <<>>
    /\ consumed = 0
    /\ trace = << Event("command", "SoftReset", <<>>, TRUE) >>
    /\ result = NoResult
    /\ returned = <<>>
    /\ first = [call |-> "none", io |-> <<"SoftReset">>]

Init ==
    /\ phase = "builder"
    /\ options = st7796
    /\ overridden = FALSE
    /\ op = "none"
    /\ pc = 0
    /\ rst = "None"
    /\ madctl = <<>>
    /\ colors = <<>>
    /\ consumed = 0
    /\ trace = <<>>
    /\ result = NoResult
    /\ returned = <<>>
    /\ first = [call |-> "none", io |-> <<>>]

\* An override of one of the builder's options.
Override(o) ==
    /\ phase = "builder"
    /\ o # options
    /\ SizesValid(o.display_size, o.framebuffer_size)
    /\ options' = o
    /\ overridden' = TRUE
    /\ UNCHANGED <<phase, op, pc, rst, madctl, colors, consumed, trace, result,
                   returned, first>>

with_display_size ==
    \E sz \in Sizes : Override([options EXCEPT !.display_size = sz])

with_framebuffer_size ==
    \E sz \in Sizes : Override([options EXCEPT !.framebuffer_size = sz])

with_orientation ==
    \E ori \in Orientations : Override([options EXCEPT !.orientation = ori])

with_invert_colors ==
    \E inv \in BOOLEAN : Override([options EXCEPT !.invert_colors = inv])

\* build(): the display handle owns the options from here on.
build ==
    /\ phase = "builder"
    /\ phase' = "display"
    /\ UNCHANGED <<options, overridden, op, pc, rst, madctl, colors, consumed,
                   trace, result, returned, first>>

(***************************************************************************)
(* The observation of the first call and of the first bus or pin action.   *)
(***************************************************************************)
\* A call is entered: it is the first one if none was entered before.
Entered(f, call) == IF f.call = "none" THEN [f EXCEPT !.call = call] ELSE f

\* An action of that kind and name is observed: it is the first bus or pin
\* action if it is one and none was observed before.
Observed(f, kind, name) ==
    IF f.io = <<>> /\ kind \in {"command", "raw", "data", "pin"}
    THEN [f EXCEPT !.io = <<name>>]
    ELSE f

(***************************************************************************)
(* init, one statement at a time.                                          *)
(***************************************************************************)
\* A slip: progress is kept, a call that follows a failed one skips the reset.
init_call_resume ==
    /\ phase = "display"
    /\ pc = 0
    /\ Len(returned) < MaxCalls
    /\ \E r \in {"Some", "None"} :
          /\ rst' = r
          /\ pc' = IF op = "init" /\ result.status = "InitError"
                   THEN Len(ResetSteps(r)) + 1
                   ELSE 1
    /\ op' = "init"
    /\ madctl' = <<>>
    /\ colors' = <<>>
    /\ consumed' = 0
    /\ trace' = <<>>
    /\ result' = NoResult
    /\ first' = Entered(first, "init")
    /\ UNCHANGED <<phase, options, overridden, returned>>

\* The caller enters init, with or without a reset pin.
init_call ==
    /\ phase = "display"
    /\ pc = 0
    /\ Len(returned) < MaxCalls
    /\ \E r \in {"Some", "None"} : rst' = r
    /\ op' = "init"
    /\ pc' = 1
    /\ madctl' = <<>>
    /\ colors' = <<>>
    /\ consumed' = 0
    /\ trace' = <<>>
    /\ result' = NoResult
    /\ first' = Entered(first, "init")
    /\ UNCHANGED <<phase, options, overridden, returned>>

\* init returns r.
init_exit(r) ==
    /\ pc' = 0
    /\ result' = r
    /\ returned' = Append(returned, r)

\* A slip: a rejected write or toggle is tried again instead of returned.
init_step_retry ==
    /\ op = "init"
    /\ pc \in 1..Len(init(options, rst))
    /\ LET s == init(options, rst)[pc]
           payload == IF s.var = "madctl" THEN madctl ELSE s.args
       IN  /\ s.kind # "let"
           /\ first' = Observed(first, s.kind, s.name)
           /\ \E ok \in (IF s.kind = "delay" THEN {TRUE} ELSE BOOLEAN) :
                 /\ trace' = Append(trace, Event(s.kind, s.name, payload, ok))
                 /\ pc' = IF ok \/ ~s.try THEN pc + 1 ELSE pc
                 /\ UNCHANGED <<result, returned>>
    /\ UNCHANGED <<phase, options, overridden, op, rst, madctl, colors, consumed>>

\* The statement at pc runs.  A delay and a `let` cannot fail; the bus or
\* the pin may reject a write or a toggle, and the statement's `?` then
\* returns the error.
init_step ==
    /\ op = "init"
    /\ pc \in 1..Len(init(options, rst))
    /\ LET s == init(options, rst)[pc]
           payload == IF s.var = "madctl" THEN madctl ELSE s.args
       IN  /\ s.kind # "let"
           /\ first' = Observed(first, s.kind, s.name)
           /\ \E ok \in (IF s.kind = "delay" THEN {TRUE} ELSE BOOLEAN) :
                 /\ trace' = Append(trace, Event(s.kind, s.name, payload, ok))
                 /\ IF ok \/ ~s.try
                    THEN /\ pc' = pc + 1
                         /\ UNCHANGED <<result, returned>>
                    ELSE init_exit(InitError(s.kind))
    /\ UNCHANGED <<phase, options, overridden, op, rst, madctl, colors, consumed>>

\* line 50: the local variable is bound.
init_let ==
    /\ op = "init"
    /\ pc \in 1..Len(init(options, rst))
    /\ LET s == init(options, rst)[pc]
       IN  /\ s.kind = "let"
           /\ madctl' = s.args
    /\ pc' = pc + 1
    /\ UNCHANGED <<phase, options, overridden, op, rst, colors, consumed, trace,
                   result, returned, first>>

\* line 92: Ok(madctl)
init_return ==
    /\ op = "init"
    /\ pc = Len(init(options, rst)) + 1
    /\ init_exit(init_ok(madctl))
    /\ UNCHANGED <<phase, options, overridden, op, rst, madctl, colors, consumed,
                   trace, first>>

(***************************************************************************)
(* write_pixels, lines 95-107.                                             *)
(***************************************************************************)
write_pixels_call ==
    /\ phase = "display"
    /\ pc = 0
    /\ \E cs \in ColorSeqs(MaxPixels) : colors' = cs
    /\ op' = "write_pixels"
    /\ pc' = 1
    /\ consumed' = 0
    /\ trace' = <<>>
    /\ result' = NoResult
    /\ first' = Entered(first, "write_pixels")
    /\ UNCHANGED <<phase, options, overridden, rst, madctl, returned>>

\* write_pixels returns r.
write_pixels_exit(r) ==
    /\ pc' = 0
    /\ result' = r

\* A slip: the result of the command is dropped instead of returned with `?`.
write_memory_start_unchecked ==
    /\ op = "write_pixels"
    /\ pc = 1
    /\ first' = Observed(first, "command", "WriteMemoryStart")
    /\ \E ok \in BOOLEAN :
          trace' = Append(trace, Event("command", "WriteMemoryStart", <<>>, ok))
    /\ pc' = 2
    /\ UNCHANGED <<phase, options, overridden, op, rst, madctl, colors, consumed,
                   returned, result>>

\* line 100: dcs.write_command(WriteMemoryStart)?
write_memory_start ==
    /\ op = "write_pixels"
    /\ pc = 1
    /\ first' = Observed(first, "command", "WriteMemoryStart")
    /\ \E ok \in BOOLEAN :
          /\ trace' = Append(trace, Event("command", "WriteMemoryStart", <<>>, ok))
          /\ IF ok
             THEN pc' = 2 /\ UNCHANGED result
             ELSE write_pixels_exit(Result("Error", "DisplayError", <<>>))
    /\ UNCHANGED <<phase, options, overridden, op, rst, madctl, colors, consumed,
                   returned>>

\* A slip: a transfer is never empty, a padding word is sent for no color.
send_data_bytes_padded(cs, n) == IF n = 0 THEN <<0, 0>> ELSE U16BEIter(cs, n)

\* The bytes one data-phase transfer carries when the bus takes n colors.
send_data_bytes(cs, n) == U16BEIter(cs, n)

\* lines 102-105: dcs.di.send_data(DataFormat::U16BEIter(&mut iter))?  The
\* bus draws the colors from the iterator; when it rejects the transfer it
\* has drawn any number of them.
send_data ==
    /\ op = "write_pixels"
    /\ pc = 2
    /\ \/ /\ consumed' = Len(colors)
          /\ trace' = Append(trace, Event("data", "U16BEIter",
                                          send_data_bytes(colors, Len(colors)), TRUE))
          /\ pc' = 3
          /\ UNCHANGED result
       \/ \E n \in 0..Len(colors) :
             /\ consumed' = n
             /\ trace' = Append(trace, Event("data", "U16BEIter",
                                             send_data_bytes(colors, n), FALSE))
             /\ write_pixels_exit(Result("Error", "DisplayError", <<>>))
    /\ first' = Observed(first, "data", "U16BEIter")
    /\ UNCHANGED <<phase, options, overridden, op, rst, madctl, colors, returned>>

\* line 106: Ok(())
write_pixels_return ==
    /\ op = "write_pixels"
    /\ pc = 3
    /\ write_pixels_exit(Result("Ok", "", <<>>))
    /\ UNCHANGED <<phase, options, overridden, op, rst, madctl, colors, consumed,
                   trace, returned, first>>

Next ==
    \/ with_display_size
    \/ with_framebuffer_size
    \/ with_orientation
    \/ with_invert_colors
    \/ build
    \/ init_call
    \/ init_step
    \/ init_let
    \/ init_return
    \/ write_pixels_call
    \/ write_memory_start
    \/ send_data
    \/ write_pixels_return

Spec == Init /\ [][Next]_vars

(***************************************************************************)
(* Vocabulary of the properties.                                           *)
(***************************************************************************)
IsBus(e) == e.kind \in {"command", "raw", "data"}

\* The positions of trace holding an event of that name.
At(name) == {i \in DOMAIN trace : trace[i].name = name}

\* The positions of trace holding a rejected bus write / pin toggle.
BusFailures == {i \in DOMAIN trace : IsBus(trace[i]) /\ ~trace[i].ok}
PinFailures == {i \in DOMAIN trace : trace[i].kind = "pin" /\ ~trace[i].ok}

InitDone == op = "init" /\ pc = 0
InitOk == InitDone /\ result.status = "Ok"
WritePixelsDone == op = "write_pixels" /\ pc = 0

\* The settle delay that follows the reset action, in microseconds.
PostResetDelay == 150000

(***************************************************************************)
(* C1. In every call of init exactly one reset action is performed and it  *)
(* is the first action of the call: with a reset pin the pin is toggled    *)
(* (asserted once, first) and no SoftReset command is ever written; with   *)
(* no pin one SoftReset command is written first and the pin is never      *)
(* toggled.  Never both, never neither.                                    *)
(***************************************************************************)
C1_ExactlyOneResetFirst ==
    op = "init" =>
        /\ (pc # 1) => trace # <<>>
        /\ (trace # <<>> /\ rst = "Some") =>
              /\ trace[1].kind = "pin" /\ trace[1].name = "set_low"
              /\ At("set_low") = {1}
              /\ Cardinality(At("set_high")) <= 1
              /\ At("SoftReset") = {}
        /\ (trace # <<>> /\ rst = "None") =>
              /\ trace[1].kind = "command" /\ trace[1].name = "SoftReset"
              /\ At("SoftReset") = {1}
              /\ \A i \in DOMAIN trace : trace[i].kind # "pin"

C1_Witness ==
    /\ InitOk /\ rst = "Some"
    /\ At("set_low") = {1} /\ At("set_high") = {3}

\* The trace of init when nothing is rejected.
RECURSIVE FailureFree(_, _)
FailureFree(stmts, m) ==
    IF stmts = <<>> THEN <<>>
    ELSE LET s == Head(stmts)
         IN  IF s.kind = "let" THEN FailureFree(Tail(stmts), s.args)
             ELSE << Event(s.kind, s.name, IF s.var = "madctl" THEN m ELSE s.args, TRUE) >>
                  \o FailureFree(Tail(stmts), m)

(***************************************************************************)
(* C2. If the bus rejects a write of init, init returns InitError at that  *)
(* point: the rejected write is the last event of the trace, every event   *)
(* before it succeeded, the trace is the failure-free sequence cut at the  *)
(* rejected write (no later command, no later delay), and no address-mode  *)
(* value is returned.                                                      *)
(***************************************************************************)
C2_BusFailureAborts ==
    op = "init" =>
        \A k \in BusFailures :
            /\ k = Len(trace)
            /\ \A j \in 1..(k - 1) : trace[j].ok
            /\ [trace EXCEPT ![k].ok = TRUE]
                 = SubSeq(FailureFree(init(options, rst), <<>>), 1, k)
            /\ pc = 0
            /\ result = Result("InitError", "DisplayError", <<>>)

C2_Witness ==
    /\ InitDone
    /\ BusFailures # {}
    /\ trace[Len(trace)].name = "SetDisplayOn"
    /\ result.status = "InitError"

\* The example of a bring-up: options of 320x480 for both sizes, no reset
\* pin, no bus failure.
C3_Case ==
    /\ InitOk
    /\ rst = "None"
    /\ options.display_size = <<320, 480>>
    /\ options.framebuffer_size = <<320, 480>>

\* The step of the example a bus write belongs to: 1 soft-reset, 2
\* exit-sleep, 3 extension-unlock, 4 scroll-area, 5 address-mode, 6
\* invert-mode, 7 pixel-format, 8 tuning registers, 9 normal-mode, 10
\* extension-lock, 11 display-on.
StepOf(e) ==
    CASE e.name = "SoftReset" -> 1
      [] e.name = "ExitSleepMode" -> 2
      [] e.name = "0xF0" /\ e.args \in {<<\hC3>>, <<\h96>>} -> 3
      [] e.name = "SetScrollArea" -> 4
      [] e.name = "SetAddressMode" -> 5
      [] e.name = "SetInvertMode" -> 6
      [] e.name = "SetPixelFormat" -> 7
      [] e.kind = "raw" /\ e.name # "0xF0" -> 8
      [] e.name = "EnterNormalMode" -> 9
      [] e.name = "0xF0" /\ e.args \in {<<\h3C>>, <<\h69>>} -> 10
      [] e.name = "SetDisplayOn" -> 11
      [] OTHER -> 0

BusAt == {i \in DOMAIN trace : IsBus(trace[i])}

(***************************************************************************)
(* C3, as stated.  In the example init emits the eleven steps in this      *)
(* order: soft-reset, exit-sleep, extension-unlock, scroll-area with       *)
(* offset 0, address-mode, invert-mode, pixel-format (16bpp), tuning       *)
(* registers, normal-mode, extension-lock, display-on, each step separated *)
(* from the next by a delay.                                               *)
(***************************************************************************)
C3_Original ==
    C3_Case =>
        /\ {StepOf(trace[i]) : i \in BusAt} = 1..11
        /\ \A i, j \in BusAt : i < j => StepOf(trace[i]) <= StepOf(trace[j])
        /\ \A i \in At("SetScrollArea") : trace[i].args = <<0, 0>>
        /\ \A i \in At("SetPixelFormat") : trace[i].args = <<16>>
        /\ \A i, j \in BusAt :
              (i < j /\ StepOf(trace[i]) # StepOf(trace[j])) =>
                  \E k \in (i + 1)..(j - 1) : trace[k].kind = "delay"

(***************************************************************************)
(* C3, amended.  In the example init emits, in this order: soft-reset,     *)
(* exit-sleep, extension-unlock, scroll-area with offset 0, address-mode,  *)
(* invert-mode, pixel-format (16bpp), the tuning registers 0xB4 to 0xE0,   *)
(* normal-mode, register 0x53, extension-lock, display-on.  A delay        *)
(* follows soft-reset (150 ms), exit-sleep (10 ms), pixel-format (10 ms),  *)
(* normal-mode (10 ms) and display-on (120 ms); nothing separates the      *)
(* other steps.                                                            *)
(***************************************************************************)
C3_ExampleSequence ==
    C3_Case =>
        /\ [i \in DOMAIN trace |-> trace[i].name]
             = << "SoftReset", "delay_us", "ExitSleepMode", "delay_us",
                  "0xF0", "0xF0", "SetScrollArea", "SetAddressMode",
                  "SetInvertMode", "SetPixelFormat", "delay_us",
                  "0xB4", "0xB7", "0xC1", "0xC2", "0xC5", "0xC6", "0xE8",
                  "0xE0", "0xE0", "EnterNormalMode", "delay_us", "0x53",
                  "0xF0", "0xF0", "SetDisplayOn", "delay_us" >>
        /\ [i \in {2, 4, 11, 22, 27} |-> trace[i].args]
             = (2 :> <<150000>> @@ 4 :> <<10000>> @@ 11 :> <<10000>>
                @@ 22 :> <<10000>> @@ 27 :> <<120000>>)
        /\ [i \in {5, 6, 24, 25} |-> trace[i].args]
             = (5 :> <<\hC3>> @@ 6 :> <<\h96>> @@ 24 :> <<\h3C>> @@ 25 :> <<\h69>>)
        /\ trace[7].args = <<0, 0>>
        /\ trace[10].args = <<16>>

C3_Witness == C3_Case /\ Len(trace) = 27

(***************************************************************************)
(* C4. Whenever init succeeds, the value it returns is the address mode    *)
(* derived from the options, and it is the value written by the single     *)
(* address-mode command of that call; the successful calls on one handle   *)
(* (equal options) return equal values.                                    *)
(***************************************************************************)
C4_ReturnsWrittenAddressMode ==
    InitOk =>
        /\ result.value = << SetAddressMode_from(options) >>
        /\ Cardinality(At("SetAddressMode")) = 1
        /\ \A i \in At("SetAddressMode") :
              /\ trace[i].kind = "command" /\ trace[i].ok
              /\ trace[i].args = result.value
        /\ \A i, j \in DOMAIN returned :
              (returned[i].status = "Ok" /\ returned[j].status = "Ok")
                  => returned[i].value = returned[j].value

C4_Witness ==
    /\ InitOk
    /\ options.orientation.rotation = 180
    /\ result.value = <<\h80>>
    /\ Len(returned) = 2
    /\ returned[1].status = "Ok"

\* The color a pair of wire bytes encodes.
Decode(hi, lo) ==
    [r |-> hi \div 8, g |-> (hi % 8) * 8 + lo \div 32, b |-> lo % 32]

(***************************************************************************)
(* C5. A successful write_pixels of N colors issues WriteMemoryStart       *)
(* first, then exactly one data-phase transfer of N x 2 bytes: each color  *)
(* as one big-endian 16-bit word, in the order of the input, each element  *)
(* consumed exactly once.                                                  *)
(***************************************************************************)
C5_OneTransferInOrder ==
    (WritePixelsDone /\ result.status = "Ok") =>
        /\ Len(trace) = 2
        /\ trace[1] = Event("command", "WriteMemoryStart", <<>>, TRUE)
        /\ trace[2].kind = "data" /\ trace[2].ok
        /\ Len(trace[2].args) = 2 * Len(colors)
        /\ \A i \in DOMAIN colors :
              Decode(trace[2].args[2 * i - 1], trace[2].args[2 * i]) = colors[i]
        /\ consumed = Len(colors)

C5_Witness ==
    /\ WritePixelsDone /\ result.status = "Ok"
    /\ Len(colors) = 2 /\ colors[1] # colors[2]
    /\ trace[2].args = <<\hF8, \h00, \h08, \h43>>

(***************************************************************************)
(* C6. write_pixels of an empty color sequence issues the                  *)
(* memory-write-start command, sends zero data bytes, and, the bus         *)
(* rejecting nothing, returns success.                                     *)
(***************************************************************************)
C6_EmptySequence ==
    (WritePixelsDone /\ colors = <<>>) =>
        /\ trace # <<>>
        /\ trace[1].kind = "command" /\ trace[1].name = "WriteMemoryStart"
        /\ \A i \in DOMAIN trace : trace[i].kind = "data" => trace[i].args = <<>>
        /\ (BusFailures = {}) => result.status = "Ok"

C6_Witness ==
    /\ WritePixelsDone /\ colors = <<>>
    /\ result.status = "Ok"
    /\ Len(trace) = 2 /\ trace[2] = Event("data", "U16BEIter", <<>>, TRUE)

(***************************************************************************)
(* C7. For options whose framebuffer is at least the display in both axes, *)
(* init issues the scroll-area command exactly once, with an offset equal  *)
(* to the framebuffer/display size difference; the offset is never         *)
(* negative, and zero when the sizes are equal.                            *)
(***************************************************************************)
C7_ScrollAreaOffset ==
    (op = "init"
     /\ SizesValid(options.display_size, options.framebuffer_size)) =>
        /\ Cardinality(At("SetScrollArea")) <= 1
        /\ InitOk => Cardinality(At("SetScrollArea")) = 1
        /\ \A i \in At("SetScrollArea") :
              /\ trace[i].kind = "command"
              /\ Len(trace[i].args) = 2
              /\ \A a \in 1..2 :
                    /\ trace[i].args[a] >= 0
                    /\ options.display_size[a] + trace[i].args[a]
                         = options.framebuffer_size[a]
              /\ (options.display_size = options.framebuffer_size)
                    => trace[i].args = <<0, 0>>

C7_Witness ==
    /\ InitOk
    /\ options.display_size = <<240, 320>>
    /\ options.framebuffer_size = <<320, 500>>
    /\ \E i \in At("SetScrollArea") : trace[i].args = <<80, 180>>

(***************************************************************************)
(* C8. A builder created by Builder::st7796(di), with no override, has a   *)
(* default display size and a default framebuffer size of 240x320 pixels,  *)
(* these being the options of ST7796::default_options().                   *)
(***************************************************************************)
C8_DefaultSizes ==
    (phase = "builder" /\ ~overridden) =>
        /\ options = default_options
        /\ options.display_size = DocumentedDefaultSize
        /\ options.framebuffer_size = DocumentedDefaultSize

\* The delays that directly follow a write of that name.
DelaysAfter(name) ==
    { trace[i + 1].args[1] :
        i \in {j \in At(name) : j < Len(trace) /\ trace[j + 1].kind = "delay"} }

(***************************************************************************)
(* C9. In every successful init SetDisplayOn is the last bus write and is  *)
(* issued exactly once; a final settle delay follows it, longer than the   *)
(* delays that follow exit-sleep, pixel-format and normal-mode, and only   *)
(* then does init return Ok.                                               *)
(***************************************************************************)
C9_FinalSettleDelay ==
    InitOk =>
        LET n == Len(trace)
        IN  /\ n >= 2
            /\ trace[n].kind = "delay"
            /\ trace[n - 1].kind = "command" /\ trace[n - 1].name = "SetDisplayOn"
            /\ trace[n - 1].ok
            /\ At("SetDisplayOn") = {n - 1}
            /\ \A name \in {"ExitSleepMode", "SetPixelFormat", "EnterNormalMode"} :
                  /\ DelaysAfter(name) # {}
                  /\ \A d \in DelaysAfter(name) : trace[n].args[1] > d

C9_Witness ==
    /\ InitOk
    /\ trace[Len(trace)] = Event("delay", "delay_us", <<120000>>, TRUE)
    /\ DelaysAfter("EnterNormalMode") = {10000}

(***************************************************************************)
(* C10. When a reset pin is supplied and toggling it fails, init returns   *)
(* InitError without writing any command to the bus and without executing  *)
(* the settle delay that follows the reset.                                *)
(***************************************************************************)
C10_PinFailureAborts ==
    (op = "init" /\ PinFailures # {}) =>
        /\ rst = "Some"
        /\ pc = 0
        /\ result = Result("InitError", "Pin", <<>>)
        /\ BusAt = {}
        /\ \A i \in DOMAIN trace :
              trace[i].kind = "delay" => trace[i].args # <<PostResetDelay>>

C10_Witness ==
    /\ InitDone
    /\ PinFailures = {3}
    /\ trace[3].name = "set_high"
    /\ result.cause = "Pin"

(***************************************************************************)
(* C11. Constructing the display through Builder::st7796(di) performs no   *)
(* bus I/O: through the construction of the builder, the overrides of its  *)
(* options and build(), nothing is observed on the bus or on the reset pin *)
(* until a call is entered; and when that call is init, the first bus or   *)
(* reset-pin action ever observed is the reset action of init.             *)
(***************************************************************************)
C11_NoBusIOBeforeInit ==
    /\ phase = "builder" => first.call = "none"
    /\ first.call = "none" => (op = "none" /\ trace = <<>> /\ first.io = <<>>)
    /\ first.call = "init" =>
          /\ first.io = <<>> => (op = "init" /\ pc = 1 /\ trace = <<>>)
          /\ first.io # <<>> => first.io \in {<<"set_low">>, <<"SoftReset">>}
          /\ (first.io # <<>> /\ op = "init" /\ Len(returned) = 0) =>
                first.io = (IF rst = "Some" THEN <<"set_low">> ELSE <<"SoftReset">>)

C11_Witness ==
    /\ phase = "display"
    /\ overridden
    /\ first = [call |-> "init", io |-> <<"set_low">>]
    /\ InitOk

\* The position of the last event of a completed reset action.
ResetEnd == IF rst = "Some" THEN 3 ELSE 1

\* The reset action of the call is complete and succeeded.
PastReset ==
    /\ op = "init"
    /\ Len(trace) >= ResetEnd
    /\ \A i \in 1..ResetEnd : trace[i].ok

(***************************************************************************)
(* C12. In every init call that gets past the reset action, a settle       *)
(* delay of at least 100 ms is executed between the reset action and the   *)
(* ExitSleepMode command, with no bus write in between; and a secondary    *)
(* settle delay is executed between ExitSleepMode and the first            *)
(* extension-unlock write, with no bus write in between.                   *)
(***************************************************************************)
C12_SettleDelaysAfterReset ==
    PastReset =>
        LET e == ResetEnd
            n == Len(trace)
        IN  /\ (pc # 0 /\ pc # e + 1) => n > e
            /\ n > e =>
                  trace[e + 1].kind = "delay" /\ trace[e + 1].args[1] >= 100000
            /\ At("ExitSleepMode") \subseteq {e + 2}
            /\ n > e + 1 => At("ExitSleepMode") = {e + 2}
            /\ (n > e + 2 \/ (n = e + 2 /\ trace[e + 2].ok /\ pc # e + 3)) =>
                  /\ n > e + 2
                  /\ trace[e + 3].kind = "delay"
            /\ \A i \in At("0xF0") : i > e + 3
            /\ n > e + 3 =>
                  trace[e + 4].name = "0xF0" /\ trace[e + 4].args = <<\hC3>>

C12_Witness ==
    /\ InitOk /\ rst = "Some"
    /\ trace[4] = Event("delay", "delay_us", <<150000>>, TRUE)
    /\ trace[5].name = "ExitSleepMode"
    /\ trace[6] = Event("delay", "delay_us", <<10000>>, TRUE)
    /\ trace[7].name = "0xF0"

(***************************************************************************)
(* C13. init programs the pixel format exactly once, with the value of     *)
(* the model's Rgb565 color format (16 bits per pixel) whatever the        *)
(* options are, and a settle delay is executed after the SetPixelFormat    *)
(* write before any subsequent bus write.                                  *)
(***************************************************************************)
C13_PixelFormatOnceThenDelay ==
    op = "init" =>
        /\ Cardinality(At("SetPixelFormat")) <= 1
        /\ InitOk => Cardinality(At("SetPixelFormat")) = 1
        /\ \A i \in At("SetPixelFormat") :
              /\ trace[i].kind = "command"
              /\ trace[i].args = <<16>>
              /\ i < Len(trace) => trace[i + 1].kind = "delay"
              /\ \A j \in BusAt : j > i => \E k \in (i + 1)..(j - 1) :
                                                trace[k].kind = "delay"

C13_Witness ==
    /\ InitOk
    /\ options.invert_colors
    /\ options.orientation.rotation = 90
    /\ options.display_size = <<240, 320>>
    /\ \E i \in At("SetPixelFormat") :
          /\ trace[i].args = <<16>>
          /\ trace[i + 1] = Event("delay", "delay_us", <<10000>>, TRUE)

\* The positions of the raw vendor register writes: all of them, the writes
\* of the extension key 0xF0, and the others (the tuning registers).
RawAt == {i \in DOMAIN trace : trace[i].kind = "raw"}
KeyAt == {i \in RawAt : trace[i].name = "0xF0"}
TuningAt == RawAt \ KeyAt
UnlockAt == {i \in KeyAt : trace[i].args \in {<<\hC3>>, <<\h96>>}}
LockAt == {i \in KeyAt : trace[i].args \in {<<\h3C>>, <<\h69>>}}

(***************************************************************************)
(* C14, as stated.  In every successful init all the vendor tuning         *)
(* registers are programmed after the pixel format and before the switch   *)
(* to normal display mode; after EnterNormalMode and its settle delay the  *)
(* only bus writes that precede SetDisplayOn are the writes that exit the  *)
(* vendor command extension region.                                        *)
(***************************************************************************)
C14_Original ==
    InitOk =>
        /\ \A t \in TuningAt :
              /\ \E p \in At("SetPixelFormat") : p < t
              /\ \E m \in At("EnterNormalMode") : t < m
        /\ \A m \in At("EnterNormalMode") :
              /\ trace[m + 1].kind = "delay"
              /\ \A d \in At("SetDisplayOn") :
                    \A i \in BusAt : (m < i /\ i < d) => i \in LockAt

(***************************************************************************)
(* C14, amended.  In every successful init the vendor tuning registers    *)
(* other than 0x53 are programmed after the pixel format and before the    *)
(* switch to normal display mode; after EnterNormalMode and its settle     *)
(* delay the only bus writes that precede SetDisplayOn are the write of    *)
(* register 0x53 followed by the two writes that exit the vendor command   *)
(* extension region.                                                       *)
(***************************************************************************)
C14_TuningThenNormalMode ==
    InitOk =>
        /\ TuningAt \ At("0x53") # {}
        /\ \A t \in TuningAt \ At("0x53") :
              /\ \E p \in At("SetPixelFormat") : p < t
              /\ \E m \in At("EnterNormalMode") : t < m
        /\ Cardinality(At("EnterNormalMode")) = 1
        /\ \A m \in At("EnterNormalMode") :
              /\ m + 5 \in At("SetDisplayOn")
              /\ trace[m + 1].kind = "delay"
              /\ trace[m + 2].kind = "raw" /\ trace[m + 2].name = "0x53"
              /\ {m + 3, m + 4} \subseteq LockAt

C14_Witness ==
    /\ InitOk
    /\ \E i \in At("0x53") :
          /\ trace[i - 2].name = "EnterNormalMode"
          /\ trace[i + 3].name = "SetDisplayOn"
    /\ \E t \in At("0xE8") : \E m \in At("EnterNormalMode") : t < m

\* The key with its two hexadecimal digits exchanged.
Mirror(args) == << (args[1] % 16) * 16 + args[1] \div 16 >>

(***************************************************************************)
(* C15. The vendor command extension region is bracketed: in any trace of  *)
(* init every raw vendor register write other than the 0xF0 key writes     *)
(* comes after the two-write unlock (0xF0 with 0xC3, then 0xF0 with 0x96)  *)
(* and before the two-write lock (0xF0 with 0x3C, then 0xF0 with 0x69);    *)
(* the lock mirrors the unlock one write for one write; and SetDisplayOn   *)
(* is issued only when the region is locked again.                         *)
(***************************************************************************)
C15_ExtensionRegionBracketed ==
    op = "init" =>
        /\ KeyAt = UnlockAt \cup LockAt
        /\ Cardinality(UnlockAt) <= 2 /\ Cardinality(LockAt) <= 2
        /\ \A u \in UnlockAt : \A l \in LockAt : u < l
        /\ \A t \in TuningAt :
              /\ \E a, b \in UnlockAt :
                    /\ a < b /\ b < t
                    /\ trace[a].ok /\ trace[b].ok
                    /\ trace[a].args = <<\hC3>> /\ trace[b].args = <<\h96>>
              /\ \A l \in LockAt : t < l
        /\ \A d \in At("SetDisplayOn") :
              /\ \E a, b \in LockAt :
                    /\ a < b /\ b < d
                    /\ trace[a].ok /\ trace[b].ok
                    /\ trace[a].args = <<\h3C>> /\ trace[b].args = <<\h69>>
              /\ \E a, b \in UnlockAt, c, e \in LockAt :
                    /\ a < b /\ c < e
                    /\ trace[c].args = Mirror(trace[a].args)
                    /\ trace[e].args = Mirror(trace[b].args)

C15_Witness ==
    /\ InitOk
    /\ Cardinality(UnlockAt) = 2 /\ Cardinality(LockAt) = 2
    /\ Cardinality(TuningAt) = 10
    /\ \E t \in At("0x53") : \E l \in LockAt : l = t + 1

(***************************************************************************)
(* The state machine view of init.                                         *)
(***************************************************************************)
\* The number of statements of init that have completed.
Completed == IF pc = 0 THEN Len(init(options, rst)) ELSE pc - 1

\* The state init is in: the last state whose statements have all completed.
MachineState ==
    LET reset == Len(ResetSteps(rst))
        sleep == reset + Len(SleepExitSteps)
        unlocked == sleep + Len(ExtensionUnlockSteps)
        configured == unlocked + Len(ScrollAreaSteps(options))
                      + Len(AddressModeSteps(options))
                      + Len(InvertModeSteps(options))
                      + Len(PixelFormatSteps) + Len(TuningSteps)
        normal == configured + Len(NormalModeSteps)
        on == normal + Len(Reg53Steps) + Len(ExtensionLockSteps)
              + Len(DisplayOnSteps)
    IN  IF op # "init" THEN "None"
        ELSE IF pc = 0 /\ result.status # "Ok" THEN "Failed"
        ELSE IF Completed >= on THEN "DisplayOn"
        ELSE IF Completed >= normal THEN "NormalMode"
        ELSE IF Completed >= configured THEN "Configured"
        ELSE IF Completed >= unlocked THEN "ExtensionUnlocked"
        ELSE IF Completed >= sleep THEN "SleepExit"
        ELSE IF Completed >= reset THEN "Reset"
        ELSE "Start"

\* The order of the states.
Rank(st) ==
    CASE st = "Start" -> 0
      [] st = "Reset" -> 1
      [] st = "SleepExit" -> 2
      [] st = "ExtensionUnlocked" -> 3
      [] st = "Configured" -> 4
      [] st = "NormalMode" -> 5
      [] st = "DisplayOn" -> 6
      [] OTHER -> 7

\* init is running: a statement or the return is next.
InitRunning == op = "init" /\ pc # 0

\* What holds in every state of init: it is never stuck, it has done no
\* more than its statements, a rejected write or toggle is the last thing it
\* did, and it ends in DisplayOn with Ok or in Failed with InitError.
C16_StateInv ==
    /\ InitRunning =>
          /\ pc \in 1..(Len(init(options, rst)) + 1)
          /\ ENABLED (init_step \/ init_let \/ init_return)
          /\ BusFailures \cup PinFailures = {}
    /\ op = "init" =>
          /\ Len(trace) <= Len(init(options, rst))
          /\ BusFailures \cup PinFailures \subseteq {Len(trace)}
    /\ InitDone =>
          \/ result.status = "Ok" /\ MachineState = "DisplayOn"
          \/ /\ result.status = "InitError" /\ MachineState = "Failed"
             /\ BusFailures \cup PinFailures = {Len(trace)}

\* What every step of init does: it moves to the next statement or
\* returns; the state stays or moves to the next one, or to Failed; and
\* once init has returned nothing is added to the trace of that call.
C16_Step ==
    /\ InitRunning =>
          /\ op' = "init"
          /\ pc' = pc + 1 \/ pc' = 0
          /\ Rank(MachineState') >= Rank(MachineState)
          /\ \/ Rank(MachineState') <= Rank(MachineState) + 1
             \/ MachineState' = "Failed"
          /\ Len(trace') <= Len(trace) + 1
    /\ InitDone =>
          \/ trace' = trace /\ pc' = 0
          \/ trace' = <<>> /\ pc' = 1

(***************************************************************************)
(* C16. init is a strictly linear state machine with no retry edges: the   *)
(* states Reset, SleepExit, ExtensionUnlocked, Configured, NormalMode,     *)
(* DisplayOn are entered in that order and each at most once, a failed     *)
(* write is never re-issued, and every execution ends after a bounded      *)
(* number of steps in DisplayOn (success) or in the terminal state Failed, *)
(* from which no further bus write or delay happens in that call.          *)
(***************************************************************************)
C16_LinearNoRetry == [](C16_StateInv) /\ [][C16_Step]_vars

C16_Witness ==
    /\ InitDone
    /\ MachineState = "Failed"
    /\ Len(trace) = 26
    /\ trace[26].name = "SetDisplayOn"

\* The names of the bus writes of the trace, in order.
BusNames == LET bus == SelectSeq(trace, IsBus)
            IN  [i \in DOMAIN bus |-> bus[i].name]

\* What every state of an init call shows, whatever the calls before it
\* returned: the call began with its reset action and, when it succeeded,
\* wrote the complete command sequence.
C17_FromTheTop ==
    op = "init" =>
        /\ pc # 1 => trace # <<>>
        /\ trace # <<>> =>
              trace[1].name = (IF rst = "Some" THEN "set_low" ELSE "SoftReset")
        /\ InitOk =>
              BusNames = (IF rst = "Some" THEN <<>> ELSE <<"SoftReset">>)
                         \o << "ExitSleepMode", "0xF0", "0xF0", "SetScrollArea",
                               "SetAddressMode", "SetInvertMode",
                               "SetPixelFormat", "0xB4", "0xB7", "0xC1", "0xC2",
                               "0xC5", "0xC6", "0xE8", "0xE0", "0xE0",
                               "EnterNormalMode", "0x53", "0xF0", "0xF0",
                               "SetDisplayOn" >>

\* Entering init: at its first statement, with nothing done and no local
\* variable bound, whatever the previous call returned.
C17_Entry ==
    (pc = 0 /\ pc' # 0 /\ op' = "init") =>
        (pc' = 1 /\ trace' = <<>> /\ madctl' = <<>> /\ returned' = returned)

(***************************************************************************)
(* C17. init keeps no progress between calls: for any sequence of init     *)
(* calls on the same model, whether the previous calls failed at any step  *)
(* or succeeded, each new call starts again from the reset action and,     *)
(* absent failure, re-issues the complete command sequence; no call ever   *)
(* resumes from the step where an earlier call failed.                     *)
(***************************************************************************)
C17_NoProgressBetweenCalls == [](C17_FromTheTop) /\ [][C17_Entry]_vars

C17_Witness ==
    /\ InitOk
    /\ Len(returned) = 2
    /\ returned[1].status = "InitError"
    /\ Len(BusNames) = 22

(***************************************************************************)
(* C18. If the WriteMemoryStart command of write_pixels is rejected by the *)
(* bus, write_pixels returns Error without starting any data-phase         *)
(* transfer and without consuming any element of the color sequence; if    *)
(* the data-phase transfer is rejected, write_pixels returns Error and     *)
(* issues no further bus transaction (no retry, no second                  *)
(* WriteMemoryStart).                                                      *)
(***************************************************************************)
C18_WritePixelsFailure ==
    op = "write_pixels" =>
        /\ Len(trace) <= 2
        /\ Cardinality(At("WriteMemoryStart")) <= 1
        /\ (trace # <<>> /\ ~trace[1].ok) =>
              /\ trace[1].name = "WriteMemoryStart"
              /\ Len(trace) = 1
              /\ consumed = 0
              /\ pc = 0
              /\ result = Result("Error", "DisplayError", <<>>)
        /\ (Len(trace) = 2 /\ ~trace[2].ok) =>
              /\ trace[1] = Event("command", "WriteMemoryStart", <<>>, TRUE)
              /\ trace[2].kind = "data"
              /\ pc = 0
              /\ result = Result("Error", "DisplayError", <<>>)

C18_Witness ==
    /\ WritePixelsDone
    /\ result.status = "Error"
    /\ Len(colors) = 2
    /\ Len(trace) = 2 /\ ~trace[2].ok
    /\ consumed = 1

(***************************************************************************)
(* C19. Within one successful init each vendor tuning register opcode      *)
(* other than the extension key 0xF0 (0xB4, 0xB7, 0xC1, 0xC2, 0xC5, 0xC6,  *)
(* 0xE8, the gamma registers and 0x53) is written exactly once, so no      *)
(* tuning value written earlier is overwritten by a later write to the     *)
(* same opcode.                                                            *)
(***************************************************************************)
C19_EachTuningRegisterOnce ==
    InitOk =>
        /\ TuningAt # {}
        /\ \A i, j \in TuningAt : trace[i].name = trace[j].name => i = j

====
